---- MODULE Spec2Model ----
(***************************************************************************)
(* Model of escraper/parsers/radario.py: Radario.get_event and             *)
(* Radario.get_events (pagination of the list endpoint, the seen-id list,  *)
(* the per-item detail fetch).  A caller makes a bounded number of         *)
(* sequential get_events calls; the upstream's answers are inputs.         *)
(*                                                                         *)
(* The body of a list page is revealed item by item, as the for loop of    *)
(* get_events reads it: only its length is fixed when the response         *)
(* arrives.  The detail endpoint answers for the id it was asked for.      *)
(***************************************************************************)
EXTENDS Integers, Sequences, FiniteSets, TLC

\* ---------------------------------------------------------------- bounds
MaxCalls == 2      \* get_events calls the caller makes

\* ------------------------------------------------------ program constants
limit == 21
OffsetCap == 100
HTTP_OK == 200

parser_prefix == "RADARIO-"
BASE_URL == "https://radario.ru/events/"

AVAILABLE_CATEGORIES ==
    {"concert", "theatre", "museum", "education",
     "sport", "entertainment", "kids", "show"}

categories_to_id ==
    [c \in AVAILABLE_CATEGORIES \cup {"Active"} |->
        CASE c = "concert" -> 1
          [] c = "theatre" -> 2
          [] c = "museum" -> 3
          [] c = "education" -> 4
          [] c = "sport" -> 5
          [] c = "entertainment" -> 6
          [] c = "kids" -> 380
          [] c = "show" -> 1598
          [] c = "Active" -> 1669]

\* the tags of the canonical record the model carries
ALL_EVENT_TAGS == {"id", "url"}

\* ------------------------------------------------------------ input sets
RawIds == {1, 2}
Statuses == {200, 201, 404}
PageLens == {0, 1, limit}
\* a list response: truthy with a JSON list of len items, or falsy (its
\* body, here one element, is never read)
Responses == {[ok |-> TRUE, len |-> n] : n \in PageLens}
                \cup {[ok |-> FALSE, len |-> 1]}
NoResponse == [ok |-> FALSE, len |-> 0]
TagArgs == {{}, {"url"}}
CategoryArgs == {<<"concert", "bogus", "kids">>}
\* the mappings a caller may hold
ParamsChoices ==
    {[k \in {"online", "category"} |->
         IF k = "online" THEN TRUE ELSE c] : c \in CategoryArgs}

\* --------------------------------------------------------------- helpers
Range(s) == {s[i] : i \in 1..Len(s)}
EmptyDict == [k \in {} |-> TRUE]
Pop(m, k) == [x \in DOMAIN m \ {k} |-> m[x]]
PopValue(m, k, dflt) == IF k \in DOMAIN m THEN m[k] ELSE dflt

_id(raw) == <<parser_prefix, raw>>
_url(raw) == <<BASE_URL, raw>>

\* BaseParser.parse: only the requested tags are populated; a tag that was
\* not requested is absent from the record, and reading it is an error
parse(raw, tags) ==
    [t \in tags |-> IF t = "id" THEN _id(raw) ELSE _url(raw)]

get_event_bad(raw, status, tags) ==
    IF status >= 400
    THEN [raised |-> TRUE, event |-> EmptyDict]
    ELSE [raised |-> FALSE,
          event |-> parse(raw, IF tags = {} THEN ALL_EVENT_TAGS ELSE tags)]

get_event(raw, status, tags) ==
    IF status # HTTP_OK
    THEN [raised |-> TRUE, event |-> EmptyDict]
    ELSE [raised |-> FALSE,
          event |-> parse(raw, IF tags = {} THEN ALL_EVENT_TAGS ELSE tags)]

IsAvailable_bad(cat) == TRUE

IsAvailable(cat) == cat \in AVAILABLE_CATEGORIES \cup {""}

Seen_bad(raw, ids) == <<"", raw>> \in Range(ids)

Seen(raw, ids) == _id(raw) \in Range(ids)

ListBody_bad(resp) == resp.len

\* lines 123-126: the number of items of list_event_from_json
ListBody(resp) == IF resp.ok THEN resp.len ELSE 0

PageShort_bad(n) == n = 0

PageShort(n) == n < limit

NextOffset_bad(o) == o + limit

NextOffset(o) == o + (limit - 1)

\* ----------------------------------------------------------------- state
VARIABLES
    pc,               \* position of the caller / of get_events
    calls,            \* get_events calls made so far
    caller_params,    \* the caller's request_params mapping
    caller_ids,       \* the caller's own seen-id list
    default_ids,      \* the list bound to the default of existed_event_ids
    ids_arg,          \* which list existed_event_ids names in this call
    aliased,          \* request_params is the caller's own mapping
    tags,             \* the tags argument
    is_online,
    cats,             \* the popped category list
    cat_i,            \* index of the current category
    offset,
    response,         \* the last list-page response
    item_i,           \* index of the item the for loop is at
    events,
    \* history
    requests,         \* list-page requests of this call, with what came back
    detail_status,    \* status of the last detail response (0: none)
    n_detail,         \* detail requests of this call
    warnings,         \* categories warned about in this call
    ids_at_start,     \* existed_event_ids when the call started
    params0,          \* the caller's mapping as first built
    returned          \* ids handed back so far by calls given the caller's list

vars == <<pc, calls, caller_params, caller_ids, default_ids, ids_arg,
          aliased, tags, is_online, cats, cat_i, offset, response,
          item_i, events, requests, detail_status, n_detail, warnings,
          ids_at_start, params0, returned>>

locals == <<ids_arg, aliased, tags, is_online, cats>>
lists == <<caller_ids, default_ids>>
caller == <<calls, caller_params, params0, returned>>

existed_event_ids == IF ids_arg = "default" THEN default_ids ELSE caller_ids

Init ==
    /\ pc = "idle"
    /\ calls = 0
    /\ caller_params \in ParamsChoices
    /\ params0 = caller_params
    /\ caller_ids = <<>>
    /\ default_ids = <<>>
    /\ ids_arg = "caller"
    /\ aliased = FALSE
    /\ tags = {}
    /\ is_online = FALSE
    /\ cats = <<>>
    /\ cat_i = 1
    /\ offset = 0
    /\ response = NoResponse
    /\ item_i = 1
    /\ events = <<>>
    /\ requests = <<>>
    /\ detail_status = 0
    /\ n_detail = 0
    /\ warnings = <<>>
    /\ ids_at_start = <<>>
    /\ returned = {}

\* an exception leaves get_events: its frame is gone
Unwind ==
    /\ cat_i' = 1
    /\ offset' = 0
    /\ response' = NoResponse
    /\ item_i' = 1
    /\ events' = <<>>

\* lines 49, 82-106: entry of get_events up to the category loop
get_events(p_arg, i_arg, t_arg) ==
    /\ pc = "idle"
    /\ calls < MaxCalls
    /\ LET alias == p_arg /\ DOMAIN caller_params # {}
           request_params == IF alias THEN caller_params ELSE EmptyDict
           after_online == Pop(request_params, "online")
           after_category == Pop(after_online, "category")
       IN /\ aliased' = alias
          /\ is_online' = PopValue(request_params, "online", FALSE)
          /\ cats' = PopValue(after_online, "category", <<"">>)
          /\ caller_params' = IF alias THEN after_category ELSE caller_params
    /\ calls' = calls + 1
    /\ ids_arg' = i_arg
    /\ tags' = t_arg
    /\ ids_at_start' = IF i_arg = "default" THEN default_ids ELSE caller_ids
    /\ events' = <<>>
    /\ offset' = 0
    /\ cat_i' = 1
    /\ pc' = "for_cat"
    /\ UNCHANGED <<lists, response, item_i, requests, detail_status,
                   n_detail, warnings, params0, returned>>

\* lines 106-107: the next category is an available one
ForCategory ==
    /\ pc = "for_cat"
    /\ cat_i <= Len(cats)
    /\ IsAvailable(cats[cat_i])
    /\ pc' = "while"
    /\ UNCHANGED <<caller, lists, locals, cat_i, offset, response, item_i,
                   events, requests, detail_status, n_detail, warnings,
                   ids_at_start>>

\* lines 138-139: the next category is not available
WarnCategory ==
    /\ pc = "for_cat"
    /\ cat_i <= Len(cats)
    /\ ~IsAvailable(cats[cat_i])
    /\ warnings' = Append(warnings, cats[cat_i])
    /\ cat_i' = cat_i + 1
    /\ UNCHANGED <<pc, caller, lists, locals, offset, response, item_i,
                   events, requests, detail_status, n_detail,
                   ids_at_start>>

\* line 141
Return ==
    /\ pc = "for_cat"
    /\ cat_i > Len(cats)
    /\ pc' = "returned"
    /\ UNCHANGED <<caller, lists, locals, cat_i, offset, response, item_i,
                   events, requests, detail_status, n_detail, warnings,
                   ids_at_start>>

\* lines 108-126: one list-page request and its response
RequestPage(resp) ==
    /\ pc = "while"
    /\ OffsetCap >= offset
    /\ IF cats[cat_i] # "" /\ cats[cat_i] \notin DOMAIN categories_to_id
       THEN \* line 119: KeyError
            /\ pc' = "raised"
            /\ Unwind
            /\ UNCHANGED requests
       ELSE /\ requests' = Append(requests,
                 [cat_i |-> cat_i,
                  superTagId |-> IF cats[cat_i] = "" THEN 0
                                 ELSE categories_to_id[cats[cat_i]],
                  online |-> is_online,
                  limit |-> limit,
                  offset |-> offset,
                  ok |-> resp.ok,
                  few |-> resp.ok /\ resp.len < 21,
                  none |-> resp.ok /\ resp.len = 0])
            /\ response' = resp
            /\ item_i' = 1
            /\ pc' = "for_item"
            /\ UNCHANGED <<cat_i, offset, events>>
    /\ UNCHANGED <<caller, lists, locals, detail_status, n_detail, warnings,
                   ids_at_start>>

\* line 108: the while condition fails
ExitWhile ==
    /\ pc = "while"
    /\ ~(OffsetCap >= offset)
    /\ cat_i' = cat_i + 1
    /\ pc' = "for_cat"
    /\ UNCHANGED <<caller, lists, locals, offset, response, item_i, events,
                   requests, detail_status, n_detail, warnings,
                   ids_at_start>>

\* lines 127-129: the item's id is in existed_event_ids
SkipItem(raw) ==
    /\ pc = "for_item"
    /\ item_i <= ListBody(response)
    /\ Seen(raw, existed_event_ids)
    /\ item_i' = item_i + 1
    /\ UNCHANGED <<pc, caller, lists, locals, cat_i, offset, response,
                   events, requests, detail_status, n_detail, warnings,
                   ids_at_start>>

\* lines 127-134: the item is new; its detail is fetched
FetchItem(raw, status) ==
    /\ pc = "for_item"
    /\ item_i <= ListBody(response)
    /\ ~Seen(raw, existed_event_ids)
    /\ detail_status' = status
    /\ n_detail' = n_detail + 1
    /\ LET r == get_event(raw, status,
                          IF tags = {} THEN ALL_EVENT_TAGS ELSE tags)
       IN IF r.raised
          THEN \* line 42: ValueError leaves get_events
               /\ pc' = "raised"
               /\ Unwind
               /\ UNCHANGED lists
          ELSE IF "id" \in DOMAIN r.event
          THEN /\ events' = Append(events, r.event)
               /\ IF ids_arg = "default"
                  THEN /\ default_ids' = Append(default_ids, r.event["id"])
                       /\ UNCHANGED caller_ids
                  ELSE /\ caller_ids' = Append(caller_ids, r.event["id"])
                       /\ UNCHANGED default_ids
               /\ item_i' = item_i + 1
               /\ UNCHANGED <<pc, cat_i, offset, response>>
          ELSE \* line 134: the record just appended to events has no id
               /\ pc' = "raised"
               /\ Unwind
               /\ UNCHANGED lists
    /\ UNCHANGED <<caller, locals, requests, warnings, ids_at_start>>

\* lines 135-136: after the last item of the page
EndPage ==
    /\ pc = "for_item"
    /\ item_i > ListBody(response)
    /\ IF PageShort(ListBody(response))
       THEN /\ cat_i' = cat_i + 1
            /\ pc' = "for_cat"
            /\ UNCHANGED offset
       ELSE /\ offset' = NextOffset(offset)
            /\ pc' = "while"
            /\ UNCHANGED cat_i
    /\ UNCHANGED <<caller, lists, locals, response, item_i, events, requests,
                   detail_status, n_detail, warnings, ids_at_start>>

\* the caller takes the result (or the error) of the call
Receive ==
    /\ pc \in {"returned", "raised"}
    /\ returned' = IF pc = "returned" /\ ids_arg = "caller"
                   THEN returned \cup {events[i]["id"] : i \in 1..Len(events)}
                   ELSE returned
    /\ pc' = "idle"
    /\ ids_arg' = "caller"
    /\ aliased' = FALSE
    /\ tags' = {}
    /\ is_online' = FALSE
    /\ cats' = <<>>
    /\ cat_i' = 1
    /\ offset' = 0
    /\ response' = NoResponse
    /\ item_i' = 1
    /\ events' = <<>>
    /\ requests' = <<>>
    /\ detail_status' = 0
    /\ n_detail' = 0
    /\ warnings' = <<>>
    /\ ids_at_start' = <<>>
    /\ UNCHANGED <<calls, caller_params, params0, lists>>

Step ==
    \/ ForCategory
    \/ WarnCategory
    \/ Return
    \/ \E resp \in Responses : RequestPage(resp)
    \/ ExitWhile
    \/ \E raw \in RawIds : SkipItem(raw)
    \/ \E raw \in RawIds, status \in Statuses : FetchItem(raw, status)
    \/ EndPage

Next ==
    \/ \E p_arg \in BOOLEAN, i_arg \in {"default", "caller"},
          t_arg \in TagArgs :
          get_events(p_arg, i_arg, t_arg)
    \/ Step
    \/ Receive

Spec == Init /\ [][Next]_vars

FairSpec == Spec /\ WF_vars(Step)

\* ------------------------------------------------------------ properties
InCall == pc \in {"for_cat", "while", "for_item"}
IdsOf(evs) == [i \in 1..Len(evs) |-> evs[i]["id"]]
Known(cat) == cat \in AVAILABLE_CATEGORIES \cup {""}

\* C1: with a shared seen-id list, no returned event carries an id that was
\* in the list when the call started or that an earlier call on the same
\* list returned, and no id occurs twice in one call's events.
C1_NoSeenIdReturned ==
    pc # "idle" =>
        \A i \in 1..Len(events) :
            "id" \in DOMAIN events[i] =>
                /\ events[i]["id"] \notin Range(ids_at_start)
                /\ ids_arg = "caller" => events[i]["id"] \notin returned
                /\ \A j \in 1..Len(events) :
                      (j # i /\ "id" \in DOMAIN events[j])
                          => events[j]["id"] # events[i]["id"]

C1_Witness ==
    /\ pc = "returned"
    /\ calls = 2
    /\ ids_arg = "caller"
    /\ returned # {}
    /\ returned \subseteq Range(ids_at_start)
    /\ Len(events) >= 1
    /\ \E r \in 1..Len(requests) : requests[r].ok /\ ~requests[r].few

\* C2: within one category, no list-page request follows a page that came
\* back with fewer than 21 items.
C2_StopsAfterShortPage ==
    \A i \in 1..Len(requests) : \A j \in 1..Len(requests) :
        (i < j /\ requests[i].cat_i = requests[j].cat_i)
            => ~requests[i].few

C2_Witness ==
    /\ pc = "returned"
    /\ \E i \in 2..Len(requests) :
          /\ requests[i].few
          /\ ~requests[i].none
          /\ requests[i - 1].cat_i = requests[i].cat_i
          /\ i = Len(requests)
          /\ cat_i > Len(cats)

\* C3: an unknown category only warns: no list-page request carries it, the
\* step that meets it changes nothing but the warnings and moves on to the
\* next category, and the call is not aborted by it.
C3_UnknownState ==
    /\ \A i \in 1..Len(requests) : Known(cats[requests[i].cat_i])
    /\ InCall =>
          warnings = SelectSeq(SubSeq(cats, 1, cat_i - 1), LAMBDA c : ~Known(c))
    /\ pc = "raised" => detail_status # 0

C3_UnknownStep ==
    (pc = "for_cat" /\ cat_i <= Len(cats) /\ ~Known(cats[cat_i]))
        => /\ pc' = "for_cat"
           /\ cat_i' = cat_i + 1
           /\ warnings' = Append(warnings, cats[cat_i])
           /\ UNCHANGED <<requests, n_detail, events, caller_ids, default_ids>>

C3_UnknownCategorySkipped == []C3_UnknownState /\ [][C3_UnknownStep]_vars

C3_Witness ==
    /\ pc = "returned"
    /\ warnings # <<>>
    /\ \E i \in 1..Len(cats) : \E j \in 1..Len(cats) :
          /\ i < j
          /\ ~Known(cats[i])
          /\ \E r \in 1..Len(requests) : requests[r].cat_i = j
    /\ Len(events) >= 1

\* C4: a detail response other than 200 ends the call with an error and no
\* event list; get_event raises on every such status and returns no event.
C4_DetailFailureFatal ==
    /\ detail_status \notin {0, 200} => pc = "raised"
    /\ pc = "returned" => detail_status \in {0, 200}
    /\ \A raw \in RawIds, s \in Statuses, t \in TagArgs :
          s # 200 => /\ get_event(raw, s, t).raised
                     /\ get_event(raw, s, t).event = EmptyDict

C4_Witness ==
    /\ pc = "raised"
    /\ detail_status = 404
    /\ n_detail >= 2
    /\ existed_event_ids # ids_at_start

\* C6: every list-page request has an offset among 0, 20, ..., 100, two
\* consecutive requests of a category are 20 apart, a category gets at most
\* six requests, and every call ends.
C6_OffsetsBounded ==
    /\ \A i \in 1..Len(requests) :
          /\ requests[i].offset \in {0, 20, 40, 60, 80, 100}
          /\ (i > 1 /\ requests[i - 1].cat_i = requests[i].cat_i)
                => requests[i].offset = requests[i - 1].offset + 20
    /\ \A c \in 1..Len(cats) :
          Cardinality({i \in 1..Len(requests) : requests[i].cat_i = c}) <= 6

C6_Terminates == []C6_OffsetsBounded /\ (InCall ~> ~InCall)

C6_Witness ==
    /\ pc = "returned"
    /\ Len(requests) = 6
    /\ requests[6].offset = 100
    /\ requests[6].ok
    /\ ~requests[6].few
    /\ \A i \in 1..6 : requests[i].cat_i = requests[1].cat_i

\* C7: a failed list-page response raises nothing and counts as an empty
\* page: the next step leaves the category with no event, no detail request
\* and no seen id added, and the next available category still gets its
\* request.
C7_FailedStep ==
    (pc = "for_item" /\ ~response.ok)
        => /\ pc' = "for_cat"
           /\ cat_i' = cat_i + 1
           /\ UNCHANGED <<events, n_detail, caller_ids, default_ids,
                          requests, offset>>

C7_FailedState ==
    \A i \in 1..Len(requests) :
        ~requests[i].ok =>
            /\ \A j \in 1..Len(requests) :
                  i < j => requests[j].cat_i # requests[i].cat_i
            /\ \A c \in 1..Len(cats) :
                  ( /\ c > requests[i].cat_i
                    /\ Known(cats[c])
                    /\ \A b \in (requests[i].cat_i + 1)..(c - 1) :
                          ~Known(cats[b])
                    /\ (cat_i > c \/ pc = "returned") )
                     => \E j \in 1..Len(requests) : requests[j].cat_i = c

C7_FailedPageIsEmpty == []C7_FailedState /\ [][C7_FailedStep]_vars

C7_Witness ==
    /\ pc = "returned"
    /\ Len(events) >= 1
    /\ \E i \in 1..Len(requests) : \E j \in 1..Len(requests) :
          /\ ~requests[i].ok
          /\ requests[j].cat_i > requests[i].cat_i
          /\ requests[j].ok
          /\ ~requests[j].none

\* C5: a call made without existed_event_ids starts from an empty seen list.
C5_DefaultStartsEmpty ==
    (pc # "idle" /\ ids_arg = "default") => ids_at_start = <<>>

\* C8: the first list-page request of every category has offset 0.
C8_PaginationRestarts ==
    \A i \in 1..Len(requests) :
        (i = 1 \/ requests[i - 1].cat_i # requests[i].cat_i)
            => requests[i].offset = 0

\* C9: the ids a call appended to the seen-id list are those of the events
\* it hands back; after an aborted call the list is as it was before.
C9_AppendedIdsAreReturned ==
    /\ pc = "returned" => existed_event_ids = ids_at_start \o IdsOf(events)
    /\ pc = "raised" => existed_event_ids = ids_at_start

\* C10: the caller's request_params mapping is never changed, and a call
\* working on it filters by the categories and online flag it holds.
C10_ParamsUnchanged ==
    /\ caller_params = params0
    /\ (InCall /\ aliased)
          => /\ cats = PopValue(params0, "category", <<"">>)
             /\ is_online = PopValue(params0, "online", FALSE)

====
